---- MODULE Spec2Model ----
(***************************************************************************)
(* A model of three parts of the yue repository:                           *)
(*   - the native object marshaller of src/lua/metatable.h  (SpecWrap),    *)
(*   - the dynamic value bridge of src/lua_yue/binding_values.cc           *)
(*     (SpecValue),                                                        *)
(*   - the table view of src/nativeui/win/table_win.cc and                 *)
(*     src/nativeui/gtk/table_gtk.cc  (SpecTable).                         *)
(* Each part has its own specification; the variables of the other parts   *)
(* stay at their initial value.                                            *)
(***************************************************************************)
EXTENDS Integers, Sequences, FiniteSets, TLC

VARIABLES
  \* ---- marshaller (metatable.h) ----
  objs,          \* native heap: address -> object slot
  handles,       \* scripting heap: handle id -> userdata
  wrapperTable,  \* identity side table: address -> handle id or NoHandle
  stack,         \* scripting stack: sequence of NilValue or handle ids
  last,          \* what the most recent Push / To call did
  ub,            \* TRUE once a call has dereferenced a null pointer
  \* ---- value bridge (binding_values.cc) ----
  vphase,        \* "idle", "pushed" or "read"
  val,           \* the base::Value given to Push
  slot,          \* the scripting value at the stack index
  vout,          \* *out of To
  vres,          \* the result of the most recent To / IsTableArray
  \* ---- table view (table_win.cc, table_gtk.cc) ----
  backend,       \* "win" or "gtk"
  columns_,      \* the view's columns
  model,         \* NoModel or the grid of the TableModel
  edit_row_,     \* TableImpl::edit_row_
  edit_column_,  \* TableImpl::edit_column_
  edit_proc_,    \* TableImpl::edit_proc_
  ctlEdit,       \* the cell the native control is editing, or NoCell
  calls,         \* what the most recent handler called: model, observers, refreshes
  lresult,       \* what the most recent handler returned
  tlast,         \* the event the most recent handler was given
  viewRows,      \* the number of rows the native control holds
  multi,         \* the native control allows several selected rows
  selection,     \* the rows selected in the native control
  widths,        \* the width the native control has for each column
  rowHeight,     \* the row height the native control uses
  scale,         \* scale_factor() of the view, in halves (3 is 1.5)
  tree_model,    \* TRUE once the tree view has a tree model (gtk)
  wndproc,       \* the window procedure of the list view's edit window
  \* ---- scroll bar button (scroll_bar_button.cc) ----
  type_,         \* ScrollBarButton::type_
  state_,        \* the ControlState of the button
  repeater_,     \* TRUE while the auto-repeat timer of repeater_ runs
  position,      \* the line the scroll bar is at
  steps,         \* the scroll steps the most recent handler performed
  blast          \* the event the most recent handler was given

wrapVars  == <<objs, handles, wrapperTable, stack, last, ub>>
valueVars == <<vphase, val, slot, vout, vres>>
tableVars == <<backend, columns_, model, edit_row_, edit_column_, edit_proc_,
               ctlEdit, calls, lresult, tlast, viewRows, multi, selection,
               widths, rowHeight, scale, tree_model, wndproc>>
buttonVars == <<type_, state_, repeater_, position, steps, blast>>
vars      == <<wrapVars, valueVars, tableVars, buttonVars>>

\* ------------------------------------------------------------------------
\* Bounds of the model.
MaxHandles == 2   \* userdata ever allocated in one run
MaxObjects == 2   \* native objects ever allocated in one run
MaxStack   == 2   \* height of the scripting stack

\* ======================================================================
\* Part 1: the native object marshaller (src/lua/metatable.h)
\* ======================================================================

Null     == 0
Addrs    == {1, 2}
NoHandle == 0
NilValue == 0
Unset    == -1        \* *out before a To call

HandleIds == 1..MaxHandles

\* The native classes offered to scripts.  RcBase <- RcDerived, RcOther are
\* RefCounted; WkBase, WkOther own a WeakPtrFactory.
RcClasses == {"RcBase", "RcDerived", "RcOther"}
WkClasses == {"WkBase", "WkOther"}
Classes   == RcClasses \cup WkClasses
NoClass   == "none"

\* The C++ base class of a class (its metatable's __index parent).
Parent(c) ==
  IF c = "RcDerived" THEN "RcBase" ELSE NoClass

\* sizeof(T*) and sizeof(base::WeakPtr<T>) on a 64-bit build.
PtrSize     == 8
WeakPtrSize == 16

FreeSlot   == [alive |-> FALSE, cls |-> NoClass, gen |-> 0, refs |-> 0,
               owner |-> FALSE]
FreeHandle == [st |-> "free", kind |-> "none", ptr |-> Null, gen |-> 0,
               meta |-> NoClass]
NoCall     == [op |-> "none", kind |-> "none", ptr |-> Null, T |-> NoClass,
               h |-> NoHandle, ok |-> FALSE, out |-> Unset, hit |-> NoHandle,
               alloc |-> FALSE, pushed |-> 0]

IsRc(c) == c \in RcClasses

\* The class and its C++ base classes.
RECURSIVE Ancestors(_)
Ancestors(c) == IF c = NoClass THEN {} ELSE {c} \cup Ancestors(Parent(c))

\* base::RefCounted: AddRef, and Release, which deletes the object when the
\* count drops to zero (the address becomes free, its generation is kept).
AddRef(heap, p) == [heap EXCEPT ![p].refs = @ + 1]

Release(heap, p) ==
  IF heap[p].refs <= 1
    THEN [heap EXCEPT ![p] = [FreeSlot EXCEPT !.gen = heap[p].gen]]
    ELSE [heap EXCEPT ![p].refs = @ - 1]

\* UserData<T>::Construct for RefCounted: ptr->AddRef(); *data = ptr.
RcConstruct_NoAddRef(heap, p) == heap

RcConstruct(heap, p) == AddRef(heap, p)

\* UserData<T>::Destruct for RefCounted: (*data)->Release().
RcDestruct(heap, p) == Release(heap, p)

\* UserData<T>::From for RefCounted: the stored raw pointer.
RcFrom(hd) == hd.ptr

\* UserData<T>::Construct for WeakPtr: the WeakPtr of ptr->GetWeakPtr(); it
\* refers to the object allocated at ptr now (its generation), not to the
\* address.
WkConstruct(heap, p) == [ptr |-> p, gen |-> heap[p].gen]

\* UserData<T>::From for WeakPtr: WeakPtr::get(), null once the object the
\* WeakPtr was taken from is destroyed.
WkFrom_Stale(heap, hd) == hd.ptr

WkFrom(heap, hd) ==
  IF hd.ptr # Null /\ heap[hd.ptr].alive /\ heap[hd.ptr].gen = hd.gen
    THEN hd.ptr
    ELSE Null

\* sizeof(typename UserData<T>::Type) for the class T.
SizeOfUserData(T) == IF IsRc(T) THEN PtrSize ELSE WeakPtrSize

\* lua_rawlen of a userdata: the size it was allocated with.
RawLen(hd) == IF hd.kind = "rc" THEN PtrSize ELSE WeakPtrSize

\* IsMetaTableInheritedFrom<T>: mt is the metatable on top of the stack;
\* true when its __name is T's, else walk to the __index of its metatable.
RECURSIVE IsMetaTableInheritedFrom(_, _)
IsMetaTableInheritedFrom(T, mt) ==
  IF mt # NoClass /\ mt = T THEN TRUE
  ELSE IF mt = NoClass \/ Parent(mt) = NoClass THEN FALSE
  ELSE IsMetaTableInheritedFrom(T, Parent(mt))

\* internal::WrapperTableGet: the live wrapper recorded for the pointer.
WrapperTableGet(p) == wrapperTable[p]

\* internal::WrapperTableSet: record handle h under pointer p.
WrapperTableSet(wt, p, h) == [wt EXCEPT ![p] = h]

\* The next userdata lua_newuserdata hands out.
FreshHandle == CHOOSE h \in HandleIds :
                 handles[h].st = "free" /\ \A g \in HandleIds : g < h => handles[g].st # "free"
HasFreshHandle == \E h \in HandleIds : handles[h].st = "free"

IsUserData(v) == v # NilValue

OnStack(h) == \E i \in 1..Len(stack) : stack[i] = h

\* The userdata NewUserData allocates for pointer p of static type T.
RcUserData(heap, p, T) ==
  [st |-> "live", kind |-> "rc", ptr |-> p, gen |-> heap[p].gen, meta |-> T]

WkUserData(wp, T) ==
  [st |-> "live", kind |-> "weak", ptr |-> wp.ptr, gen |-> wp.gen, meta |-> T]

DeadHandle == [FreeHandle EXCEPT !.st = "dead"]

\* Type<T*>::Push for RefCounted T.  NewUserData allocates the userdata and
\* runs UserData<T>::Construct; InheritanceChain<T>::Push / SetMetaTable give
\* it T's metatable.
PushRefCounted_NoLookup(p, T) ==
  IF p = Null
    THEN /\ stack' = Append(stack, NilValue)
         /\ UNCHANGED <<objs, handles, wrapperTable, ub>>
    ELSE /\ HasFreshHandle
         /\ objs' = RcConstruct(objs, p)
         /\ handles' = [handles EXCEPT ![FreshHandle] = RcUserData(objs, p, T)]
         /\ wrapperTable' = WrapperTableSet(wrapperTable, p, FreshHandle)
         /\ stack' = Append(stack, FreshHandle)
         /\ UNCHANGED ub

PushRefCounted(p, T) ==
  IF p = Null
    THEN /\ stack' = Append(stack, NilValue)
         /\ UNCHANGED <<objs, handles, wrapperTable, ub>>
  ELSE IF WrapperTableGet(p) # NoHandle
    THEN /\ stack' = Append(stack, WrapperTableGet(p))
         /\ UNCHANGED <<objs, handles, wrapperTable, ub>>
    ELSE /\ HasFreshHandle
         /\ objs' = RcConstruct(objs, p)
         /\ handles' = [handles EXCEPT ![FreshHandle] = RcUserData(objs, p, T)]
         /\ wrapperTable' = WrapperTableSet(wrapperTable, p, FreshHandle)
         /\ stack' = Append(stack, FreshHandle)
         /\ UNCHANGED ub

\* Type<T*>::Push for WeakPtr T.  A null ptr pushes nil and then falls
\* through to NewUserData, whose Construct calls ptr->GetWeakPtr() on the null
\* pointer: the call either crashes or leaves a userdata holding a null
\* WeakPtr on top of the nil.
PushWeakPtr(p, T) ==
  IF p = Null
    THEN \/ /\ ub' = TRUE
            /\ stack' = Append(stack, NilValue)
            /\ UNCHANGED <<objs, handles, wrapperTable>>
         \/ /\ HasFreshHandle
            /\ handles' = [handles EXCEPT ![FreshHandle] =
                             WkUserData([ptr |-> Null, gen |-> 0], T)]
            /\ stack' = Append(Append(stack, NilValue), FreshHandle)
            /\ UNCHANGED <<objs, wrapperTable, ub>>
    ELSE /\ HasFreshHandle
         /\ handles' = [handles EXCEPT ![FreshHandle] =
                          WkUserData(WkConstruct(objs, p), T)]
         /\ stack' = Append(stack, FreshHandle)
         /\ UNCHANGED <<objs, wrapperTable, ub>>

\* Type<T*>::To for RefCounted T on the stack value v: [ok, out].
ToRefCounted(v, T, out) ==
  IF ~IsUserData(v) \/ RawLen(handles[v]) # SizeOfUserData(T)
    THEN [ok |-> FALSE, out |-> out]
  ELSE IF handles[v].meta = NoClass
          \/ ~IsMetaTableInheritedFrom(T, handles[v].meta)
    THEN [ok |-> FALSE, out |-> out]
  ELSE [ok |-> TRUE, out |-> RcFrom(handles[v])]

\* Type<T*>::To for WeakPtr T on the stack value v: [ok, out].
ToWeakPtr(v, T, out) ==
  IF ~IsUserData(v) \/ RawLen(handles[v]) # SizeOfUserData(T)
    THEN [ok |-> FALSE, out |-> out]
  ELSE IF WkFrom(objs, handles[v]) = Null
    THEN [ok |-> FALSE, out |-> out]
  ELSE [ok |-> TRUE, out |-> WkFrom(objs, handles[v])]

\* The __gc metamethod of a collected userdata runs UserData<T>::Destruct;
\* the weak-valued side table drops the entry of the collected userdata.
OnGC(h) ==
  /\ handles[h].st = "live"
  /\ ~OnStack(h)
  /\ handles' = [handles EXCEPT ![h] = DeadHandle]
  /\ IF handles[h].kind = "rc"
       THEN /\ objs' = RcDestruct(objs, handles[h].ptr)
            /\ wrapperTable' =
                 IF wrapperTable[handles[h].ptr] = h
                   THEN WrapperTableSet(wrapperTable, handles[h].ptr, NoHandle)
                   ELSE wrapperTable
       ELSE UNCHANGED <<objs, wrapperTable>>
  /\ UNCHANGED <<stack, ub>>

\* ---- the callers of the marshaller --------------------------------------

\* The number of objects allocated so far (the generations add up to it).
RECURSIVE SumGen(_)
SumGen(S) == IF S = {} THEN 0
             ELSE LET p == CHOOSE q \in S : TRUE IN objs[p].gen + SumGen(S \ {p})
Allocated == SumGen(Addrs)

\* Native code allocates an object of class c at the free address p; a
\* RefCounted object starts with the reference of its native owner.
NativeNew(p, c) ==
  /\ ~objs[p].alive
  /\ Allocated < MaxObjects
  /\ objs' = [objs EXCEPT ![p] =
                [alive |-> TRUE, cls |-> c, gen |-> objs[p].gen + 1,
                 refs |-> IF IsRc(c) THEN 1 ELSE 0, owner |-> TRUE]]
  /\ UNCHANGED <<handles, wrapperTable, stack, ub>>

\* The native owner of a RefCounted object drops its reference.
NativeRelease(p) ==
  /\ objs[p].alive /\ IsRc(objs[p].cls) /\ objs[p].owner
  /\ objs' = Release([objs EXCEPT ![p].owner = FALSE], p)
  /\ UNCHANGED <<handles, wrapperTable, stack, ub>>

\* The native owner of a WeakPtr-owned object deletes it.
NativeDelete(p) ==
  /\ objs[p].alive /\ ~IsRc(objs[p].cls)
  /\ objs' = [objs EXCEPT ![p] = [FreeSlot EXCEPT !.gen = objs[p].gen]]
  /\ UNCHANGED <<handles, wrapperTable, stack, ub>>

\* The script drops the top of the stack.
Pop ==
  /\ Len(stack) > 0
  /\ stack' = SubSeq(stack, 1, Len(stack) - 1)
  /\ UNCHANGED <<objs, handles, wrapperTable, ub>>

Top(s) == IF Len(s) = 0 THEN NilValue ELSE s[Len(s)]

\* A pointer the native side can hand to Push<T*>: null, or a live object
\* whose class is T or derives from T.
Pushable(p, T) ==
  IF p = Null THEN TRUE ELSE objs[p].alive /\ T \in Ancestors(objs[p].cls)

WrapFrame == ~ub /\ UNCHANGED <<valueVars, tableVars, buttonVars>>

CallPushRc ==
  \E p \in Addrs \cup {Null}, T \in RcClasses :
    /\ WrapFrame
    /\ Pushable(p, T)
    /\ Len(stack) < MaxStack
    /\ PushRefCounted(p, T)
    /\ last' = [NoCall EXCEPT !.op = "Push", !.kind = "rc", !.ptr = p, !.T = T,
                  !.h = Top(stack'),
                  !.hit = IF p = Null THEN NoHandle ELSE wrapperTable[p],
                  !.alloc = (handles' # handles),
                  !.pushed = Len(stack') - Len(stack)]

CallPushWeak ==
  \E p \in Addrs \cup {Null}, T \in WkClasses :
    /\ WrapFrame
    /\ Pushable(p, T)
    /\ Len(stack) + (IF p = Null THEN 2 ELSE 1) <= MaxStack
    /\ PushWeakPtr(p, T)
    /\ last' = [NoCall EXCEPT !.op = "Push", !.kind = "weak", !.ptr = p, !.T = T,
                  !.h = Top(stack'), !.alloc = (handles' # handles),
                  !.pushed = Len(stack') - Len(stack)]

CallToRc ==
  \E i \in 1..Len(stack), T \in RcClasses :
    /\ WrapFrame
    /\ last' = [NoCall EXCEPT !.op = "To", !.kind = "rc", !.T = T, !.h = stack[i],
                  !.ok = ToRefCounted(stack[i], T, Unset).ok,
                  !.out = ToRefCounted(stack[i], T, Unset).out]
    /\ UNCHANGED <<objs, handles, wrapperTable, stack, ub>>

CallToWeak ==
  \E i \in 1..Len(stack), T \in WkClasses :
    /\ WrapFrame
    /\ last' = [NoCall EXCEPT !.op = "To", !.kind = "weak", !.T = T, !.h = stack[i],
                  !.ok = ToWeakPtr(stack[i], T, Unset).ok,
                  !.out = ToWeakPtr(stack[i], T, Unset).out]
    /\ UNCHANGED <<objs, handles, wrapperTable, stack, ub>>

Collect      == \E h \in HandleIds : WrapFrame /\ OnGC(h) /\ last' = NoCall
NewObject    == \E p \in Addrs, c \in Classes :
                  WrapFrame /\ NativeNew(p, c) /\ last' = NoCall
DropOwner    == \E p \in Addrs : WrapFrame /\ NativeRelease(p) /\ last' = NoCall
DeleteObject == \E p \in Addrs : WrapFrame /\ NativeDelete(p) /\ last' = NoCall
PopStack     == WrapFrame /\ Pop /\ last' = NoCall

WrapNext ==
  \/ CallPushRc
  \/ CallPushWeak
  \/ CallToRc
  \/ CallToWeak
  \/ Collect
  \/ NewObject
  \/ DropOwner
  \/ DeleteObject
  \/ PopStack

WrapInit ==
  /\ objs = [p \in Addrs |-> FreeSlot]
  /\ handles = [h \in HandleIds |-> FreeHandle]
  /\ wrapperTable = [p \in Addrs |-> NoHandle]
  /\ stack = <<>>
  /\ last = NoCall
  /\ ub = FALSE

\* ---- properties of the marshaller ---------------------------------------

\* The live strong wrappers of the object now at address p.
LiveRc(p) == {h \in HandleIds : /\ handles[h].st = "live"
                                /\ handles[h].kind = "rc"
                                /\ handles[h].ptr = p}

IsLiveRcObject(p) == objs[p].alive /\ IsRc(objs[p].cls)

\* C1: a RefCounted pointer never has more than one live wrapper; the side
\* table only records live wrappers of that pointer; a Push of a non-null
\* pointer that has a wrapper recorded returns that handle and allocates
\* nothing, and a Push that misses allocates a handle and records it under
\* the pointer.
C1_OneWrapperPerPointer ==
  /\ \A p \in Addrs :
       /\ Cardinality(LiveRc(p)) <= 1
       /\ wrapperTable[p] # NoHandle => wrapperTable[p] \in LiveRc(p)
  /\ (last.op = "Push" /\ last.kind = "rc" /\ last.ptr # Null) =>
       /\ last.pushed = 1
       /\ IF last.hit # NoHandle
            THEN last.h = last.hit /\ ~last.alloc
            ELSE /\ last.alloc
                 /\ last.h # NoHandle
                 /\ wrapperTable[last.ptr] = last.h
                 /\ LiveRc(last.ptr) = {last.h}

\* C1 witness: a Push that hit the side table while another pointer has a
\* wrapper of its own.
C1_Witness ==
  /\ last.op = "Push" /\ last.kind = "rc" /\ last.ptr # Null
  /\ last.hit # NoHandle
  /\ \E q \in Addrs : q # last.ptr /\ LiveRc(q) # {}

\* C2: the references a RefCounted object holds beyond its native owner's
\* are exactly its live wrappers, of which there are 0 or 1; a live wrapper
\* always refers to the live object it was made for.
C2_RefsMatchWrappers ==
  \A p \in Addrs :
    /\ Cardinality(LiveRc(p)) \in {0, 1}
    /\ \A h \in LiveRc(p) : IsLiveRcObject(p) /\ handles[h].gen = objs[p].gen
    /\ IsLiveRcObject(p) =>
         objs[p].refs = (IF objs[p].owner THEN 1 ELSE 0) + Cardinality(LiveRc(p))

\* C2 witness: a second Push of a wrapped pointer, made after an earlier
\* wrapper was finalized, leaves the count at owner + 1.
C2_Witness ==
  /\ last.op = "Push" /\ last.kind = "rc" /\ last.ptr # Null
  /\ last.hit # NoHandle
  /\ \E h \in HandleIds : handles[h].st = "dead"
  /\ objs[last.ptr].owner /\ objs[last.ptr].refs = 2

\* The object a weak userdata was made for is still alive.
WeakTargetAlive(hd) ==
  /\ hd.ptr # Null
  /\ objs[hd.ptr].alive
  /\ objs[hd.ptr].gen = hd.gen

\* C3: To on a weak handle fails, leaving *out alone, once the object the
\* handle was made for is destroyed (even when a new object now lives at the
\* same address); while that object is alive, To to the handle's own type
\* succeeds with the original pointer.
C3_WeakToSafe ==
  (/\ last.op = "To" /\ last.kind = "weak"
   /\ IsUserData(last.h) /\ handles[last.h].kind = "weak") =>
     IF WeakTargetAlive(handles[last.h])
       THEN last.T = handles[last.h].meta =>
              last.ok /\ last.out = handles[last.h].ptr
       ELSE ~last.ok /\ last.out = Unset

\* C3 witness: To was called on a weak handle whose object is gone while a
\* newer object occupies its address.
C3_Witness ==
  /\ last.op = "To" /\ last.kind = "weak"
  /\ IsUserData(last.h) /\ handles[last.h].kind = "weak"
  /\ handles[last.h].ptr # Null
  /\ objs[handles[last.h].ptr].alive
  /\ objs[handles[last.h].ptr].gen # handles[last.h].gen
  /\ ~last.ok

\* C4: To to a requested type T succeeds only on a handle whose type is T
\* or a descendant of T, for strong and for weak handles.
C4_UnwrapTypeChecked ==
  (last.op = "To" /\ last.ok) =>
     /\ IsUserData(last.h)
     /\ last.T \in Ancestors(handles[last.h].meta)

\* C18: the side table never maps a pointer to a finalized handle or to a
\* handle of an object that has been destroyed, address reuse included; a
\* Push of a live RefCounted object returns a live handle that wraps that
\* very object (same address, same allocation), found or freshly made.
C18_NoStaleEntry ==
  /\ \A p \in Addrs :
       wrapperTable[p] # NoHandle =>
         /\ handles[wrapperTable[p]].st = "live"
         /\ handles[wrapperTable[p]].ptr = p
         /\ objs[p].alive
         /\ handles[wrapperTable[p]].gen = objs[p].gen
  /\ (last.op = "Push" /\ last.kind = "rc" /\ last.ptr # Null) =>
       /\ IsUserData(last.h)
       /\ handles[last.h].st = "live"
       /\ handles[last.h].ptr = last.ptr
       /\ handles[last.h].gen = objs[last.ptr].gen
       /\ objs[last.ptr].alive

\* C18 witness: a Push of the second object allocated at an address, made
\* after the wrapper of the first one was finalized.
C18_Witness ==
  /\ last.op = "Push" /\ last.kind = "rc" /\ last.ptr # Null
  /\ objs[last.ptr].gen > 1
  /\ last.alloc
  /\ \E h \in HandleIds : handles[h].st = "dead"

\* C19: a Push of a null pointer leaves exactly one new value, nil, on the
\* stack and makes no userdata, for RefCounted and for WeakPtr types, without
\* dereferencing the null pointer.
C19_NullPushesOneNil ==
  (last.op = "Push" /\ last.ptr = Null) =>
     /\ last.pushed = 1
     /\ last.h = NilValue
     /\ ~last.alloc
     /\ ~ub

\* ======================================================================
\* Part 2: the dynamic value bridge (src/lua_yue/binding_values.cc)
\* ======================================================================

MaxLen == 2        \* entries of a list or of a script table

\* The range of C++ int, the payload of base::Value::Type::INTEGER.
IntMax == 2147483647
IntMin == -IntMax - 1

\* Strings are byte sequences; 0 is the NUL byte.
NUL == 0

\* ---- base::Value --------------------------------------------------------
VNone      == [t |-> "NONE"]
VBool(b)   == [t |-> "BOOLEAN", b |-> b]
VInt(i)    == [t |-> "INTEGER", i |-> i]
VDouble(d) == [t |-> "DOUBLE", d |-> d]     \* d counts halves: 3 is 1.5
VString(s) == [t |-> "STRING", s |-> s]
VBinary(s) == [t |-> "BINARY", bin |-> s]
VList(l)   == [t |-> "LIST", l |-> l]
VDict(f)   == [t |-> "DICT", m |-> f]
EmptyDict  == [k \in {} |-> VNone]

\* ---- scripting values ---------------------------------------------------
\* A lua_Integer is 64 bits wide: hi and lo are its two 32-bit words, each
\* read as a two's complement int.  Every kind of value keeps its payload in
\* a field of its own.
LNil          == [t |-> "nil"]
LBool(b)      == [t |-> "boolean", b |-> b]
LInteger(h,l) == [t |-> "integer", hi |-> h, lo |-> l]
LFloat(d)     == [t |-> "float", d |-> d]
LString(s)    == [t |-> "string", s |-> s]
LTable(e)     == [t |-> "table", e |-> e]   \* e: entries in lua_next order
LOther(k)     == [t |-> k]
Entry(k, x)   == [k |-> k, x |-> x]

Unsupported == {"function", "userdata", "thread", "lightuserdata"}

\* lua_pushinteger of a C++ int: sign extension to 64 bits.
PushInt(i) == LInteger(IF i < 0 THEN -1 ELSE 0, i)

\* static_cast<int>(lua_tointeger(...)): the low 32 bits.
ToInt(li) == li.lo

\* lua_toboolean: a C int, 0 or 1, so that base::Value(lua_toboolean(...))
\* is the INTEGER constructor's value.
ToBoolean(lv) == IF lv.b THEN 1 ELSE 0

\* const char* of a byte string: the bytes before the first NUL.
RECURSIVE CStr(_)
CStr(s) == IF s = <<>> \/ Head(s) = NUL THEN <<>> ELSE <<Head(s)>> \o CStr(Tail(s))

\* lua_rawset on the entries of a table: a nil value removes the key.
RawSet(e, k, x) ==
  IF x = LNil
    THEN SelectSeq(e, LAMBDA en : en.k # k)
  ELSE IF \E i \in 1..Len(e) : e[i].k = k
    THEN [i \in 1..Len(e) |-> IF e[i].k = k THEN Entry(k, x) ELSE e[i]]
  ELSE Append(e, Entry(k, x))

\* Type<base::Value>::Push.
RECURSIVE PushValue(_)
RECURSIVE PushDict(_, _, _)
RECURSIVE PushList(_, _, _)

PushDict(f, keys, e) ==
  IF keys = {} THEN e
  ELSE LET k == CHOOSE q \in keys : TRUE
       IN PushDict(f, keys \ {k}, RawSet(e, LString(k), PushValue(f[k])))

PushList(l, i, e) ==
  IF i > Len(l) THEN e
  ELSE PushList(l, i + 1, RawSet(e, PushInt(i), PushValue(l[i])))

PushValue(v) ==
  CASE v.t = "NONE"    -> LNil
    [] v.t = "BOOLEAN" -> LBool(v.b)
    [] v.t = "INTEGER" -> PushInt(v.i)
    [] v.t = "DOUBLE"  -> LFloat(v.d)
    [] v.t = "STRING"  -> LString(v.s)
    [] v.t = "BINARY"  -> LString(v.bin)
    [] v.t = "DICT"    -> LTable(PushDict(v.m, DOMAIN v.m, <<>>))
    [] v.t = "LIST"    -> LTable(PushList(v.l, 1, <<>>))

\* lua_tointeger of a table key: 0 when the key is no integer.
LuaToInteger(k) == IF k.t = "integer" THEN k ELSE LInteger(0, 0)

IsNumber(k) == k.t \in {"integer", "float"}

\* IsTableArray: walk the entries in lua_next order; [ok, size].
RECURSIVE IsTableArrayFrom(_, _, _)
IsTableArrayFrom(e, i, size) ==
  IF i > Len(e) THEN [ok |-> TRUE, size |-> size]
  ELSE IF ~IsNumber(e[i].k) \/ LuaToInteger(e[i].k) # PushInt(size + 1)
    THEN [ok |-> FALSE, size |-> size]
  ELSE IsTableArrayFrom(e, i + 1, size + 1)

IsTableArray(tbl) == IsTableArrayFrom(tbl.e, 1, 0)

\* lua::To for std::string on a table key: only a string converts.
KeyToString(k) ==
  IF k.t = "string" THEN [ok |-> TRUE, s |-> k.s] ELSE [ok |-> FALSE, s |-> <<>>]

\* base::Value::Dict::Set.
DictSet(f, k, x) ==
  [q \in (DOMAIN f) \cup {k} |-> IF q = k THEN x ELSE f[q]]

\* StackAutoReset: the destructor puts the stack back at the saved height.
StackAutoReset(saved, now) == saved

\* Type<base::Value>::To: [ok, out, top], out being *out after the call and
\* top the height of the stack above its height at the call.
RECURSIVE ToValue(_, _)
RECURSIVE ToVector(_, _, _)
RECURSIVE ToDict(_, _, _)

\* lua::To for std::vector<base::Value>: the elements 1..size in order.
ToVector(e, i, acc) ==
  IF i > Len(e) THEN [ok |-> TRUE, list |-> acc]
  ELSE LET r == ToValue(e[i].x, VNone)
       IN IF ~r.ok THEN [ok |-> FALSE, list |-> acc]
          ELSE ToVector(e, i + 1, Append(acc, r.out))

\* The loop of the mapping branch, f being out->GetDict() so far; inside the
\* loop the key and the value lie on the stack.
ToDict(e, i, f) ==
  IF i > Len(e)
    THEN [ok |-> TRUE, out |-> VDict(f), top |-> StackAutoReset(0, 0)]
  ELSE LET key == KeyToString(e[i].k)
           r   == ToValue(e[i].x, VNone)
       IN IF ~key.ok \/ ~r.ok
            THEN [ok |-> FALSE, out |-> VDict(f), top |-> StackAutoReset(0, 2)]
            ELSE ToDict(e, i + 1, DictSet(f, CStr(key.s), r.out))

ToValue(lv, out) ==
  CASE lv.t = "integer" -> [ok |-> TRUE, out |-> VInt(ToInt(lv)), top |-> 0]
    [] lv.t = "float"   -> [ok |-> TRUE, out |-> VDouble(lv.d), top |-> 0]
    [] lv.t = "boolean" -> [ok |-> TRUE, out |-> VInt(ToBoolean(lv)), top |-> 0]
    [] lv.t = "string"  -> [ok |-> TRUE, out |-> VString(CStr(lv.s)), top |-> 0]
    [] lv.t = "table"   ->
         IF IsTableArray(lv).ok
           THEN LET r == ToVector(lv.e, 1, <<>>)
                IN IF ~r.ok THEN [ok |-> FALSE, out |-> out, top |-> 0]
                   ELSE [ok |-> TRUE, out |-> VList(r.list), top |-> 0]
           ELSE ToDict(lv.e, 1, EmptyDict)
    [] OTHER            -> [ok |-> TRUE, out |-> VNone, top |-> 0]

\* ---- the callers of the bridge ------------------------------------------

SeqsUpTo(S, n) == UNION {[1..m -> S] : m \in 0..n}
MapsOver(K, S) == UNION {[D -> S] : D \in SUBSET K}

Strs == {<<>>, <<97>>, <<97, NUL, 98>>}
Keys == {<<97>>, <<98>>, <<97, NUL, 98>>}
Ints == {0, 1, -1, IntMax, IntMin}
Dbls == {2, 3}

Scalars ==
  {VNone} \cup {VBool(b) : b \in BOOLEAN} \cup {VInt(i) : i \in Ints}
  \cup {VDouble(d) : d \in Dbls} \cup {VString(x) : x \in Strs}
  \cup {VBinary(x) : x \in {<<>>, <<97>>}}

ElemLeaf ==
  {VNone, VBool(TRUE), VInt(1), VDouble(2), VString(<<97>>), VBinary(<<97>>)}

Inner ==
  {VList(l) : l \in SeqsUpTo(ElemLeaf, 1)}
  \cup {VDict(f) : f \in MapsOver({<<97>>}, ElemLeaf)}

Elem == ElemLeaf \cup Inner

DictElem ==
  {VNone, VInt(1), VString(<<97>>), VList(<<>>), VList(<<VInt(1)>>),
   VDict(EmptyDict)}

\* The dynamic values handed to Push.
Values ==
  Scalars \cup {VList(l) : l \in SeqsUpTo(Elem, MaxLen)}
  \cup {VDict(f) : f \in MapsOver(Keys, DictElem)}

LuaScalars ==
  {LNil, LBool(TRUE), LFloat(2), LFloat(3),
   LString(<<97>>), LString(<<97, NUL, 98>>),
   LInteger(0, 1), LInteger(-1, -1), LInteger(0, IntMax),
   LInteger(-1, IntMin), LInteger(0, IntMin), LInteger(1, 1)}
  \cup {LOther(k) : k \in Unsupported}

LuaKeys ==
  {LInteger(0, 1), LInteger(0, 2), LInteger(0, 3), LFloat(3),
   LString(<<97>>), LString(<<98>>), LBool(TRUE)}

TblVals ==
  {LInteger(0, 1), LString(<<97>>), LOther("function"),
   LTable(<<Entry(LBool(TRUE), LInteger(0, 1))>>),
   LTable(<<Entry(LInteger(0, 1), LInteger(0, 1))>>)}

DistinctKeys(e) == \A i, j \in 1..Len(e) : i # j => e[i].k # e[j].k

\* The values a script can leave on the stack: a table is given by its
\* entries in the order lua_next yields them.
LuaValues ==
  LuaScalars
  \cup {LTable(e) : e \in {x \in SeqsUpTo({Entry(k, y) : k \in LuaKeys, y \in TblVals},
                                            MaxLen) : DistinctKeys(x)}}

\* *out as the caller of To holds it before the call.
PriorOuts == {VNone, VInt(7)}

NoValue == [t |-> "NOVALUE"]
NoRes   == [ok |-> FALSE, from |-> "none", before |-> VNone, array |-> FALSE,
            top |-> 0]

ValueFrame == UNCHANGED <<wrapVars, tableVars, buttonVars>>

\* Native code pushes a dynamic value.
DoPush ==
  \E v \in Values :
    /\ vphase = "idle"
    /\ val' = v
    /\ slot' = PushValue(v)
    /\ vphase' = "pushed"
    /\ UNCHANGED <<vout, vres>>
    /\ ValueFrame

\* A script leaves a value of its own on the stack.
DoScript ==
  \E lv \in LuaValues :
    /\ vphase = "idle"
    /\ slot' = lv
    /\ vphase' = "scripted"
    /\ UNCHANGED <<val, vout, vres>>
    /\ ValueFrame

\* Native code reads the value at the stack index.
DoTo ==
  /\ vphase \in {"pushed", "scripted"}
  /\ vout' = ToValue(slot, vout).out
  /\ vres' = [ok |-> ToValue(slot, vout).ok, from |-> vphase, before |-> vout,
              array |-> IF slot.t = "table" THEN IsTableArray(slot).ok ELSE FALSE,
              top |-> ToValue(slot, vout).top]
  /\ vphase' = "read"
  /\ UNCHANGED <<val, slot>>
  /\ ValueFrame

\* The caller starts over with a fresh *out.
DoReset ==
  \E o \in PriorOuts :
    /\ vphase = "read"
    /\ vphase' = "idle"
    /\ val' = NoValue /\ slot' = LNil /\ vout' = o /\ vres' = NoRes
    /\ ValueFrame

ValueNext == DoPush \/ DoScript \/ DoTo \/ DoReset

ValueInit ==
  /\ vphase = "idle" /\ val = NoValue /\ slot = LNil
  /\ vout \in PriorOuts /\ vres = NoRes

\* ---- properties of the value bridge --------------------------------------

\* The documented lossy case: a table whose single key is an integer other
\* than 1.
LossyCase(lv) ==
  /\ lv.t = "table"
  /\ Len(lv.e) = 1
  /\ lv.e[1].k.t = "integer"
  /\ lv.e[1].k # PushInt(1)

\* C5: Push(v) followed by To succeeds and yields v for every dynamic value
\* v, the documented lossy case excepted.
C5_RoundTrip ==
  (vphase = "read" /\ vres.from = "pushed" /\ ~LossyCase(slot)) =>
     vres.ok /\ vout = val

\* The keys of the entries are exactly the integers 1..N.
KeysAreRun(e) == {e[i].k : i \in 1..Len(e)} = {PushInt(n) : n \in 1..Len(e)}

\* C6: a table is classified as an array, and read as a list, exactly when
\* its keys are the integers 1..N, whatever the order lua_next yields them
\* in; any other table is read as a mapping.
C6_ArrayIffContiguousKeys ==
  (vphase = "read" /\ slot.t = "table") =>
     /\ vres.array = KeysAreRun(slot.e)
     /\ vres.ok => vout.t = (IF KeysAreRun(slot.e) THEN "LIST" ELSE "DICT")

\* C7: To returns false for a function, userdata, thread or light userdata.
C7_UnsupportedTypeFails ==
  (vphase = "read" /\ slot.t \in Unsupported) => ~vres.ok

\* C8: a To that fails leaves *out as it was before the call and the stack
\* at its height from before the call.
C8_FailureCommitsNothing ==
  (vphase = "read" /\ ~vres.ok) => vout = vres.before /\ vres.top = 0

\* C9: an integer-subtype number is read as the INTEGER of the same value, a
\* float-subtype number as the DOUBLE of the same value, and INTEGER and
\* DOUBLE are pushed as numbers of the matching subtype and value.
C9_NumbersKeepSubtypeAndValue ==
  /\ (vphase = "read" /\ slot.t = "integer") =>
        vres.ok /\ vout.t = "INTEGER" /\ PushInt(vout.i) = slot
  /\ (vphase = "read" /\ slot.t = "float") =>
        vres.ok /\ vout = VDouble(slot.d)
  /\ (vphase \in {"pushed", "read"} /\ val.t = "INTEGER") =>
        slot.t = "integer" /\ slot.lo = val.i /\ slot.hi = (IF val.i < 0 THEN -1 ELSE 0)
  /\ (vphase \in {"pushed", "read"} /\ val.t = "DOUBLE") =>
        slot = LFloat(val.d)

\* ======================================================================
\* Part 3: the table view (src/nativeui/win/table_win.cc,
\*         src/nativeui/gtk/table_gtk.cc)
\* ======================================================================

MaxCols == 2       \* columns added to the view
MaxRows == 2       \* rows of the model

\* The TableModel is the application's: the view sees its row count and
\* calls GetValue / SetValue on it.  model is NoModel or the row count.
NoModel == -1

ColumnTypes == {"Text", "Edit", "Checkbox", "Custom"}

\* Table::ColumnOptions as the caller fills it in; column -1 asks for the
\* column's own position, width -1 for an automatic width.
Widths == {-1, 100}
ModelColumns == {-1, 0, 1}
ColumnOptions == [type : ColumnTypes, column : ModelColumns, width : Widths]

NoCell  == [col |-> -1, row |-> -1]
Cell(c, r) == [col |-> c, row |-> r]
NoEvent == [op |-> "none", cell |-> NoCell, commit |-> FALSE, text |-> <<>>,
            hadModel |-> FALSE, rows |-> 0, inside |-> FALSE,
            height |-> 0, arg |-> 0]

\* The texts a user can type, as the wide string Win32 hands over and as the
\* UTF-8 string GTK hands over.
Texts == {[wide |-> <<98>>, utf8 |-> <<98>>],
          [wide |-> <<233>>, utf8 |-> <<195, 169>>]}

\* The row height of a view nobody has set one on (GetDefaultRowHeight; the
\* height of a line of text in the list view's font), in pixels.
DefaultRowHeight == 20

\* nm->item.pszText of a cancelled edit.
NoText == <<-1>>

\* base::WideToUTF8 on these texts.
RECURSIVE WideToUTF8(_)
WideToUTF8(w) ==
  IF w = <<>> THEN <<>>
  ELSE (IF Head(w) < 128
          THEN <<Head(w)>>
          ELSE <<192 + (Head(w) \div 64), 128 + (Head(w) % 64)>>)
       \o WideToUTF8(Tail(w))

\* TableModel::SetValue and TableModel::GetValue as the view calls them.
SetValueCall(c, r, x) == [op |-> "set", col |-> c, row |-> r, val |-> x]
GetValueCall(c, r)    == [op |-> "get", col |-> c, row |-> r, val |-> VNone]

\* A GetValue call together with the value the model returned.
GetValueReturn(c, r, x) == [op |-> "get", col |-> c, row |-> r, val |-> x]

GetColumnCount == Len(columns_)

\* TableModel::GetRowCount of the model m.
GetRowCount(m) == IF m = NoModel THEN 0 ELSE m

\* ---- Win32: TableImpl ----------------------------------------------------

\* The width the list view is told to stretch the column to the rest of the
\* control (commctrl.h).
LVSCW_AUTOSIZE_USEHEADER == -2

\* kDefaultColumnWidth of table_win.h, in DIPs.
kDefaultColumnWidth == 50

\* int = n * scale_factor(): the product truncated.
Scaled(n) == (n * scale) \div 2

\* ListView_GetStringWidth of a text in the control's font.
GetStringWidth(text) == 40 * Len(text)

Max(a, b) == IF a >= b THEN a ELSE b

\* TableImpl::UpdateColumnsWidth: the model calls it makes.  Every column but
\* the last that has an automatic width is measured on the first row's cell;
\* cells[i] is what the model returns for GetValue(i, 0).
RECURSIVE UpdateColumnsWidth(_, _, _, _)
UpdateColumnsWidth(cols, m, cells, i) ==
  IF i >= Len(cols) - 1 THEN <<>>
  ELSE (IF Scaled(cols[i + 1].width) < 0 /\ m # NoModel /\ GetRowCount(m) > 0
          THEN <<GetValueReturn(i, 0, cells[i])>>
          ELSE <<>>)
       \o UpdateColumnsWidth(cols, m, cells, i + 1)

\* TableImpl::UpdateColumnsWidth: the width it gives to column i with
\* ListView_SetColumnWidth.
ColumnWidth_NoPadding(cols, m, cells, i) ==
  IF i = Len(cols) - 1
    THEN IF Scaled(cols[i + 1].width) < 0
           THEN LVSCW_AUTOSIZE_USEHEADER
           ELSE Scaled(cols[i + 1].width)
  ELSE IF Scaled(cols[i + 1].width) < 0
    THEN IF m # NoModel /\ GetRowCount(m) > 0 /\ cells[i].t = "STRING"
           THEN Max(Scaled(kDefaultColumnWidth), GetStringWidth(cells[i].s))
           ELSE Scaled(kDefaultColumnWidth)
    ELSE Scaled(cols[i + 1].width)

ColumnWidth(cols, m, cells, i) ==
  IF i = Len(cols) - 1
    THEN IF Scaled(cols[i + 1].width) < 0
           THEN LVSCW_AUTOSIZE_USEHEADER
           ELSE Scaled(cols[i + 1].width)
  ELSE IF Scaled(cols[i + 1].width) < 0
    THEN IF m # NoModel /\ GetRowCount(m) > 0 /\ cells[i].t = "STRING"
           THEN Max(Scaled(kDefaultColumnWidth),
                    GetStringWidth(cells[i].s)
                      + Scaled(IF i = 0 THEN 7 ELSE 14))
           ELSE Scaled(kDefaultColumnWidth)
    ELSE Scaled(cols[i + 1].width)

\* The widths of all the columns after TableImpl::UpdateColumnsWidth.
ColumnsWidth(cols, m, cells) ==
  [k \in 1..Len(cols) |-> ColumnWidth(cols, m, cells, k - 1)]

\* TableImpl::OnWindowPosChanged; attached says whether the view is in a
\* window.
OnWindowPosChanged(attached) ==
  /\ widths' = IF /\ attached
                  /\ GetColumnCount > 0
                  /\ columns_[GetColumnCount].width = -1
                 THEN [widths EXCEPT ![GetColumnCount] = LVSCW_AUTOSIZE_USEHEADER]
                 ELSE widths
  /\ calls' = <<>>
  /\ lresult' = FALSE

\* TableImpl::AddColumnWithOptions.
WinAddColumnWithOptions(options, cells) ==
  /\ columns_' = Append(columns_,
                        IF options.column = -1
                          THEN [options EXCEPT !.column = GetColumnCount]
                          ELSE options)
  /\ UNCHANGED <<model, edit_row_, edit_column_, edit_proc_>>
  /\ calls' = UpdateColumnsWidth(columns_', model, cells, 0)
  /\ widths' = ColumnsWidth(columns_', model, cells)
  /\ lresult' = FALSE

\* TableImpl::OnBeginEdit: hit is the cell under the cursor
\* (ListView_SubItemHitTest), row the item whose label edit begins.
\* Returning TRUE refuses the edit.  SetWindowProc installs EditWndProc on
\* the edit window and returns the procedure the window had.
OnBeginEdit(row, hit) ==
  IF hit.col < 0 \/ hit.col >= GetColumnCount \/ row # hit.row
    THEN /\ lresult' = TRUE
         /\ calls' = <<>>
         /\ UNCHANGED <<edit_row_, edit_column_, edit_proc_, wndproc>>
  ELSE IF columns_[hit.col + 1].type # "Edit"
    THEN /\ lresult' = TRUE
         /\ calls' = <<>>
         /\ UNCHANGED <<edit_row_, edit_column_, edit_proc_, wndproc>>
    ELSE /\ edit_row_' = row
         /\ edit_column_' = hit.col
         /\ IF hit.col > 0
              THEN /\ edit_proc_' = wndproc
                   /\ wndproc' = "EditWndProc"
                   /\ calls' = IF model # NoModel
                                 THEN <<GetValueCall(hit.col, row)>>
                                 ELSE <<>>
              ELSE /\ UNCHANGED <<edit_proc_, wndproc>>
                   /\ calls' = <<>>
         /\ lresult' = FALSE

\* TableImpl::OnEndEdit: text is nm->item.pszText, NoText when the edit was
\* cancelled.
OnEndEdit_SetOnCancel(text, row) ==
  /\ calls' = IF model # NoModel
                THEN <<SetValueCall(edit_column_, edit_row_,
                                    VString(IF text = NoText THEN <<>>
                                            ELSE WideToUTF8(text)))>>
                ELSE <<>>
  /\ edit_row_' = -1
  /\ edit_column_' = -1
  /\ IF edit_proc_ # "null"
       THEN /\ wndproc' = edit_proc_
            /\ edit_proc_' = "null"
            /\ lresult' = FALSE
       ELSE /\ UNCHANGED <<edit_proc_, wndproc>>
            /\ lresult' = TRUE

OnEndEdit_KeepSubclass(text, row) ==
  /\ calls' = IF text # NoText /\ model # NoModel
                THEN <<SetValueCall(edit_column_, edit_row_,
                                    VString(WideToUTF8(text)))>>
                ELSE <<>>
  /\ edit_row_' = -1
  /\ edit_column_' = -1
  /\ lresult' = (edit_proc_ = "null")
  /\ UNCHANGED <<edit_proc_, wndproc>>

OnEndEdit(text, row) ==
  /\ calls' = IF text # NoText /\ model # NoModel
                THEN <<SetValueCall(edit_column_, edit_row_,
                                    VString(WideToUTF8(text)))>>
                ELSE <<>>
  /\ edit_row_' = -1
  /\ edit_column_' = -1
  /\ IF edit_proc_ # "null"
       THEN /\ wndproc' = edit_proc_
            /\ edit_proc_' = "null"
            /\ lresult' = FALSE
       ELSE /\ UNCHANGED <<edit_proc_, wndproc>>
            /\ lresult' = TRUE

\* ---- GTK: Table ----------------------------------------------------------

\* Table::AddColumnWithOptions: the renderer keeps the model column as its
\* "column" data; only an Edit renderer is editable and has OnCellEdited
\* connected.  The tree view column gets options.width as its fixed width,
\* -1 leaving the toolkit's own.
GtkAddColumnWithOptions(options) ==
  /\ columns_' = Append(columns_,
                        [options EXCEPT !.column =
                           IF options.column = -1 THEN GetColumnCount
                           ELSE options.column])
  /\ UNCHANGED <<model, edit_row_, edit_column_, edit_proc_>>
  /\ widths' = Append(widths, options.width)
  /\ calls' = <<>>
  /\ lresult' = FALSE

\* RowFromTreePath: the first index of the path, -1 for a path that does not
\* parse.
RowFromTreePath(path) == IF path.valid THEN path.row ELSE -1

\* OnCellEdited, for the renderer of view column vc.
OnCellEdited(vc, path, new_text) ==
  /\ calls' = <<SetValueCall(columns_[vc + 1].column, RowFromTreePath(path),
                             VString(CStr(new_text)))>>
  /\ lresult' = FALSE
  /\ UNCHANGED <<edit_row_, edit_column_, edit_proc_>>

\* ---- both backends: clicks, display, row notifications -------------------

\* An observer notification, and a refresh the native control is asked for.
Emit(signal, c, r) == [op |-> signal, col |-> c, row |-> r, val |-> VNone]
Flags(f) == [t |-> "FLAGS", f |-> f]
SetItemCountEx(count, f) ==
  [op |-> "SetItemCountEx", col |-> -1, row |-> count, val |-> Flags(f)]
RowRefresh(what, r) == [op |-> what, col |-> -1, row |-> r, val |-> VNone]

\* columns_[column].type: the type of the column, or, for an index outside the
\* vector, whatever the read finds there.
ColumnTypesAt(column) ==
  IF column \in 0..(GetColumnCount - 1) THEN {columns_[column + 1].type}
  ELSE ColumnTypes

\* TableImpl::OnItemClick for a click on cell (column, row) of the list view;
\* inside says whether GetCheckboxBounds(column, row) contains the point, b is
\* the boolean the model returns.
OnItemClick_EmitFirst(inside, column, row, b) ==
  IF columns_[column + 1].type # "Checkbox" \/ ~inside \/ model = NoModel
    THEN calls' = <<>> /\ lresult' = FALSE
    ELSE /\ calls' = <<Emit("on_toggle_checkbox", column, row),
                       GetValueReturn(column, row, VBool(b)),
                       SetValueCall(column, row, VBool(~b))>>
         /\ lresult' = TRUE

OnItemClick(inside, column, row, b) ==
  \E type \in ColumnTypesAt(column) :
    IF type # "Checkbox"
      THEN calls' = <<>> /\ lresult' = FALSE
    ELSE IF ~inside
      THEN calls' = <<>> /\ lresult' = FALSE
    ELSE IF model = NoModel
      THEN calls' = <<>> /\ lresult' = FALSE
      ELSE /\ calls' = <<GetValueReturn(column, row, VBool(b)),
                         SetValueCall(column, row, VBool(~b)),
                         Emit("on_toggle_checkbox", column, row)>>
           /\ lresult' = TRUE

\* OnCellToggled for the toggle renderer of view column vc.
OnCellToggled(vc, path, b) ==
  /\ calls' = <<GetValueReturn(columns_[vc + 1].column, RowFromTreePath(path),
                               VBool(b)),
                SetValueCall(columns_[vc + 1].column, RowFromTreePath(path),
                             VBool(~b)),
                Emit("on_toggle_checkbox", columns_[vc + 1].column,
                     RowFromTreePath(path))>>
  /\ lresult' = FALSE

\* TableImpl::OnGetDispInfo: the list view asks for the text of sub-item
\* column of item row; x is what the model returns.
OnGetDispInfo(column, row, x) ==
  IF edit_proc_ # "null" /\ column = edit_column_ /\ row = edit_row_
    THEN calls' = <<>> /\ lresult' = TRUE
  ELSE IF model = NoModel
    THEN calls' = <<>> /\ lresult' = FALSE
    ELSE /\ calls' = <<GetValueReturn(column, row, x)>>
         /\ lresult' = (x.t = "STRING")

\* TreeCellData for the renderer of view column vc: gtk_tree_model_get_value
\* with options->column.
TreeCellData(vc, row, x) ==
  /\ calls' = <<GetValueReturn(columns_[vc + 1].column, row, x)>>
  /\ lresult' = FALSE

\* GetModel()->GetRowCount() in the list view's handlers: the row count of the
\* model, or, with no model, whatever a call through a null pointer yields
\* when it returns at all.
ModelRowCounts == IF model = NoModel THEN 0..MaxRows ELSE {model}
NullCall == [op |-> "null_call", col |-> -1, row |-> -1, val |-> VNone]
NullCalls == IF model = NoModel THEN <<NullCall>> ELSE <<>>

\* Table::NotifyRowInsertion.  The list view takes the model's row count,
\* without repainting the rows it shows and without scrolling; the tree view
\* gets row_inserted for the path of the row.
NotifyRowInsertion_InvalidateAll(row) ==
  /\ viewRows' = IF backend = "win" THEN GetRowCount(model) ELSE viewRows + 1
  /\ selection' = IF backend = "win"
                    THEN selection \cap 0..(GetRowCount(model) - 1)
                    ELSE {IF r >= row THEN r + 1 ELSE r : r \in selection}
  /\ calls' = IF backend = "win"
                THEN <<SetItemCountEx(GetRowCount(model), {})>>
                ELSE <<RowRefresh("row_inserted", row)>>
  /\ lresult' = FALSE

NotifyRowInsertion(row) ==
  IF backend = "win"
    THEN \E count \in ModelRowCounts :
           /\ viewRows' = count
           /\ selection' = selection \cap 0..(count - 1)
           /\ calls' = NullCalls \o
                       <<SetItemCountEx(count, {"LVSICF_NOINVALIDATEALL",
                                                "LVSICF_NOSCROLL"})>>
           /\ lresult' = FALSE
    ELSE IF ~tree_model
      THEN calls' = <<>> /\ lresult' = FALSE /\ UNCHANGED <<viewRows, selection>>
      ELSE /\ viewRows' = viewRows + 1
           /\ selection' = {IF r >= row THEN r + 1 ELSE r : r \in selection}
           /\ calls' = <<RowRefresh("row_inserted", row)>>
           /\ lresult' = FALSE

\* Table::NotifyRowDeletion.
NotifyRowDeletion(row) ==
  IF backend = "win"
    THEN \E count \in ModelRowCounts :
           /\ viewRows' = count
           /\ selection' = selection \cap 0..(count - 1)
           /\ calls' = NullCalls \o
                       <<SetItemCountEx(count, {"LVSICF_NOINVALIDATEALL",
                                                "LVSICF_NOSCROLL"})>>
           /\ lresult' = FALSE
    ELSE IF ~tree_model
      THEN calls' = <<>> /\ lresult' = FALSE /\ UNCHANGED <<viewRows, selection>>
      ELSE /\ viewRows' = viewRows - 1
           /\ selection' = {IF r > row THEN r - 1 ELSE r : r \in selection \ {row}}
           /\ calls' = <<RowRefresh("row_deleted", row)>>
           /\ lresult' = FALSE

\* Table::NotifyValueChange: ListView_Update(hwnd, row), or row_changed for
\* the path of the row when the tree view has a tree model.
NotifyValueChange(column, row) ==
  /\ calls' = IF backend = "win" THEN <<RowRefresh("ListView_Update", row)>>
              ELSE IF ~tree_model THEN <<>>
              ELSE <<RowRefresh("row_changed", row)>>
  /\ lresult' = FALSE
  /\ UNCHANGED <<viewRows, selection>>

\* ---- both backends: selection and row height -----------------------------

\* The largest row of a non-empty set: std::set<int> is walked in ascending
\* order, so it is the row selected last.
LastRow(rows) == CHOOSE r \in rows : \A q \in rows : q <= r

\* Table::SelectRows: everything is deselected, then each row of the set is
\* selected in turn.  A row the control does not hold is ignored; a control
\* in single selection mode deselects the others when a row is selected.
SelectRows(rows) ==
  /\ selection' = IF multi \/ rows \cap 0..(viewRows - 1) = {}
                    THEN rows \cap 0..(viewRows - 1)
                    ELSE {LastRow(rows \cap 0..(viewRows - 1))}
  /\ calls' = <<>> /\ lresult' = FALSE
  /\ UNCHANGED <<multi, viewRows, rowHeight>>

\* Table::SelectRow.
SelectRow(row) == SelectRows({row})

\* Table::EnableMultipleSelection.  Win32: SetWindowStyle(LVS_SINGLESEL,
\* !enable) changes the style bit and nothing else.  GTK:
\* gtk_tree_selection_set_mode, which on a change to single mode deselects
\* every row but the anchor row, when that one is selected.
EnableMultipleSelection(enable) ==
  /\ multi' = enable
  /\ IF backend = "win" \/ enable \/ ~multi
       THEN UNCHANGED selection
       ELSE selection' \in {{}} \cup {{r} : r \in selection}
  /\ calls' = <<>> /\ lresult' = FALSE
  /\ UNCHANGED <<viewRows, rowHeight>>

\* std::ceil(height * scale_factor()).
CeilScaled(n) == (n * scale + 1) \div 2

\* Table::SetRowHeight.  Win32: TableImpl::SetRowHeight resizes the image
\* list that gives the rows their height, then the item count is set again;
\* GTK: refused with LOG(ERROR) once a column exists.
SetRowHeight(height) ==
  IF backend = "win"
    THEN /\ rowHeight' = CeilScaled(height)
         /\ viewRows' = IF model # NoModel THEN GetRowCount(model) ELSE viewRows
         /\ selection' = IF model # NoModel
                           THEN selection \cap 0..(GetRowCount(model) - 1)
                           ELSE selection
         /\ calls' = IF model # NoModel
                       THEN <<SetItemCountEx(GetRowCount(model), {})>>
                       ELSE <<>>
         /\ lresult' = FALSE
         /\ UNCHANGED multi
  ELSE IF GetColumnCount > 0
    THEN /\ calls' = <<Emit("LOG(ERROR)", -1, -1)>>
         /\ lresult' = FALSE
         /\ UNCHANGED <<rowHeight, viewRows, selection, multi>>
    ELSE /\ rowHeight' = height
         /\ calls' = <<>> /\ lresult' = FALSE
         /\ UNCHANGED <<viewRows, selection, multi>>

\* ---- Win32: notification dispatch ----------------------------------------

LVIF_STATE == 8

\* The notifications the list view sends that carry an item and its states
\* (NMITEMACTIVATE and NMLISTVIEW share that layout).
Notification(code, item, changed, old, new) ==
  [code |-> code, iItem |-> item, uChanged |-> changed, uOldState |-> old,
   uNewState |-> new]

\* uChanged & LVIF_STATE, on the masks used here.
HasStateFlag(nm) == nm.uChanged = LVIF_STATE

\* TableImpl::OnNotify for LVN_ITEMACTIVATE, LVN_ITEMCHANGED and codes with
\* no case of their own.  The LVN_ITEMACTIVATE case has no break and runs on
\* into the LVN_ITEMCHANGED case.
OnNotify(nm) ==
  /\ calls' =
       (IF nm.code = "LVN_ITEMACTIVATE"
          THEN <<Emit("on_row_activate", -1, nm.iItem)>> ELSE <<>>)
       \o (IF /\ nm.code \in {"LVN_ITEMACTIVATE", "LVN_ITEMCHANGED"}
              /\ HasStateFlag(nm)
              /\ nm.uOldState # nm.uNewState
             THEN <<Emit("on_selection_change", -1, -1)>> ELSE <<>>)
  /\ lresult' = FALSE

\* ---- the application and the toolkit ------------------------------------

TableFrame == UNCHANGED <<wrapVars, valueVars, buttonVars>>

\* An event, with what held when it arrived: whether a model was attached,
\* how many rows the native control had and what GetRowHeight returned.
Event(o, c, cm, t) ==
  [op |-> o, cell |-> c, commit |-> cm, text |-> t, hadModel |-> model # NoModel,
   rows |-> viewRows, inside |-> FALSE, height |-> rowHeight, arg |-> 0]

\* A call of the view's API with its argument.
ApiCall(o, a) == [Event(o, NoCell, FALSE, <<>>) EXCEPT !.arg = a]

\* The renderer of an Edit column is the only one made editable.
Editable(options) == options.type = "Edit"

\* The model column a view column shows: the list view asks for the sub-item
\* index (OnGetDispInfo), the tree view for the renderer's column (TreeCellData).
DisplayColumn(vc) ==
  IF backend = "win" THEN vc ELSE columns_[vc + 1].column

\* A model whose first row holds the text "b" in every column.
TextCells == [c \in 0..MaxCols |-> VString(<<98>>)]

\* Table::PlatformSetModel: the tree view is given a new tree model, whatever
\* the model is; the list view has every row deselected, takes
\* the row count of the new model, keeps an edit in progress and has its
\* column widths recomputed; gtk_tree_view_set_model stops an edit in
\* progress and starts with the new model's rows and no selection.
PlatformSetModel(m, cells) ==
  /\ model' = m
  /\ tree_model' = (backend = "gtk" \/ tree_model)
  /\ ctlEdit' = IF backend = "gtk" THEN NoCell ELSE ctlEdit
  /\ UNCHANGED <<columns_, edit_row_, edit_column_, edit_proc_, wndproc>>
  /\ viewRows' = GetRowCount(m)
  /\ selection' = {}
  /\ calls' = IF backend = "gtk" THEN <<>>
              ELSE IF m = NoModel THEN <<SetItemCountEx(0, {})>>
              ELSE <<SetItemCountEx(GetRowCount(m), {})>>
                   \o UpdateColumnsWidth(columns_, m, cells, 0)
                   \o <<SetItemCountEx(GetRowCount(m), {})>>
  /\ widths' = IF backend = "win" /\ m # NoModel
                 THEN ColumnsWidth(columns_, m, cells)
                 ELSE widths
  /\ lresult' = FALSE

\* What the handlers of the edit, click and notification paths leave alone.
LayoutKept == UNCHANGED <<multi, widths, rowHeight, scale>>

WinAddColumn ==
  /\ backend = "win"
  /\ GetColumnCount < MaxCols
  /\ \E options \in ColumnOptions : WinAddColumnWithOptions(options, TextCells)
  /\ tlast' = NoEvent
  /\ UNCHANGED <<backend, tree_model, wndproc, ctlEdit, viewRows, multi, selection, rowHeight, scale>>
  /\ TableFrame

GtkAddColumn ==
  /\ backend = "gtk"
  /\ GetColumnCount < MaxCols
  /\ \E options \in ColumnOptions : GtkAddColumnWithOptions(options)
  /\ tlast' = NoEvent
  /\ UNCHANGED <<backend, tree_model, wndproc, ctlEdit, viewRows, multi, selection, rowHeight, scale>>
  /\ TableFrame

SetModel ==
  /\ \E m \in {NoModel} \cup 0..MaxRows :
       /\ m # model
       /\ PlatformSetModel(m, TextCells)
  /\ tlast' = NoEvent
  /\ UNCHANGED <<backend, multi, rowHeight, scale>>
  /\ TableFrame

\* LVN_BEGINLABELEDIT for an item of the list, the cursor anywhere.
WinBeginEdit ==
  /\ backend = "win"
  /\ ctlEdit = NoCell
  /\ \E row \in 0..(viewRows - 1), hc \in -1..(GetColumnCount - 1),
        hr \in -1..(viewRows - 1) :
       /\ OnBeginEdit(row, Cell(hc, hr))
       /\ ctlEdit' = IF lresult' THEN NoCell ELSE Cell(hc, row)
       /\ tlast' = Event("BeginEdit", Cell(hc, row), FALSE, <<>>)
  /\ UNCHANGED <<backend, tree_model, columns_, model, viewRows, selection>>
  /\ LayoutKept
  /\ TableFrame

\* LVN_ENDLABELEDIT with the typed text.
WinCommitEdit ==
  /\ backend = "win"
  /\ ctlEdit # NoCell
  /\ \E t \in Texts :
       /\ OnEndEdit(t.wide, ctlEdit.row)
       /\ tlast' = Event("EndEdit", ctlEdit, TRUE, t.utf8)
  /\ ctlEdit' = NoCell
  /\ UNCHANGED <<backend, tree_model, columns_, model, viewRows, selection>>
  /\ LayoutKept
  /\ TableFrame

\* LVN_ENDLABELEDIT of a cancelled edit.
WinCancelEdit ==
  /\ backend = "win"
  /\ ctlEdit # NoCell
  /\ OnEndEdit(NoText, ctlEdit.row)
  /\ tlast' = Event("EndEdit", ctlEdit, FALSE, <<>>)
  /\ ctlEdit' = NoCell
  /\ UNCHANGED <<backend, tree_model, columns_, model, viewRows, selection>>
  /\ LayoutKept
  /\ TableFrame

\* The user asks the tree view to edit a cell; it does for an editable
\* renderer only.
GtkStartEdit ==
  /\ backend = "gtk"
  /\ ctlEdit = NoCell
  /\ \E vc \in 0..(GetColumnCount - 1), row \in 0..(viewRows - 1) :
       /\ ctlEdit' = IF Editable(columns_[vc + 1]) THEN Cell(vc, row) ELSE NoCell
       /\ tlast' = Event("BeginEdit", Cell(vc, row), FALSE, <<>>)
  /\ calls' = <<>>
  /\ lresult' = FALSE
  /\ UNCHANGED <<backend, tree_model, wndproc, columns_, model, edit_row_, edit_column_, edit_proc_>>
  /\ UNCHANGED <<viewRows, selection>>
  /\ LayoutKept
  /\ TableFrame

\* The renderer's "edited" signal.
GtkCommitEdit ==
  /\ backend = "gtk"
  /\ ctlEdit # NoCell
  /\ \E t \in Texts :
       /\ OnCellEdited(ctlEdit.col, [valid |-> TRUE, row |-> ctlEdit.row], t.utf8)
       /\ tlast' = Event("EndEdit", ctlEdit, TRUE, t.utf8)
  /\ ctlEdit' = NoCell
  /\ UNCHANGED <<backend, tree_model, wndproc, columns_, model, viewRows, selection>>
  /\ LayoutKept
  /\ TableFrame

\* The renderer's "editing-canceled" signal: no handler is connected.
GtkCancelEdit ==
  /\ backend = "gtk"
  /\ ctlEdit # NoCell
  /\ tlast' = Event("EndEdit", ctlEdit, FALSE, <<>>)
  /\ ctlEdit' = NoCell
  /\ calls' = <<>>
  /\ lresult' = FALSE
  /\ UNCHANGED <<backend, tree_model, wndproc, columns_, model, edit_row_, edit_column_, edit_proc_>>
  /\ UNCHANGED <<viewRows, selection>>
  /\ LayoutKept
  /\ TableFrame

\* ---- rows, clicks and display ---------------------------------------------

\* The columns of a table of editable and checkbox cells.
CellColumnOptions == [type : {"Edit", "Checkbox"}, column : {-1, 0}, width : {100}]

\* The values a model holds in a displayed cell.
CellValues == {VString(<<98>>), VBool(TRUE)}

RowsAddColumn ==
  /\ GetColumnCount < MaxCols
  /\ \E options \in CellColumnOptions :
       IF backend = "win"
         THEN WinAddColumnWithOptions(options, TextCells)
         ELSE GtkAddColumnWithOptions(options)
  /\ tlast' = NoEvent
  /\ UNCHANGED <<backend, tree_model, wndproc, ctlEdit, viewRows, multi, selection, rowHeight, scale>>
  /\ TableFrame

\* What a handler that neither adds a column, nor replaces the model, nor
\* touches an edit leaves alone.
EditKept ==
  UNCHANGED <<backend, tree_model, wndproc, columns_, model, edit_row_, edit_column_, edit_proc_, ctlEdit>>

\* The application adds a row to its model, or removes one, and has not told
\* the view yet.
ModelInsertRow ==
  /\ model # NoModel /\ model < MaxRows
  /\ model' = model + 1
  /\ tlast' = Event("ModelChange", NoCell, FALSE, <<>>)
  /\ calls' = <<>> /\ lresult' = FALSE
  /\ UNCHANGED <<backend, tree_model, wndproc, columns_, edit_row_, edit_column_, edit_proc_, ctlEdit,
                 viewRows, selection>>
  /\ LayoutKept
  /\ TableFrame

ModelDeleteRow ==
  /\ model # NoModel /\ model > 0
  /\ model' = model - 1
  /\ tlast' = Event("ModelChange", NoCell, FALSE, <<>>)
  /\ calls' = <<>> /\ lresult' = FALSE
  /\ UNCHANGED <<backend, tree_model, wndproc, columns_, edit_row_, edit_column_, edit_proc_, ctlEdit,
                 viewRows, selection>>
  /\ LayoutKept
  /\ TableFrame

\* The application tells the view of a row it has added at index row.
RowInserted ==
  /\ model # NoModel
  /\ viewRows < GetRowCount(model)
  /\ \E row \in 0..viewRows :
       /\ NotifyRowInsertion(row)
       /\ tlast' = Event("NotifyRowInsertion", Cell(-1, row), FALSE, <<>>)
  /\ EditKept
  /\ LayoutKept
  /\ TableFrame

\* The application tells the view of the row it has removed at index row.
RowDeleted ==
  /\ model # NoModel
  /\ viewRows > GetRowCount(model)
  /\ \E row \in 0..(viewRows - 1) :
       /\ NotifyRowDeletion(row)
       /\ tlast' = Event("NotifyRowDeletion", Cell(-1, row), FALSE, <<>>)
  /\ EditKept
  /\ LayoutKept
  /\ TableFrame

\* The application tells the view of a cell it has changed.
ValueChanged ==
  /\ model # NoModel
  /\ \E column \in 0..(GetColumnCount - 1), row \in 0..(GetRowCount(model) - 1) :
       /\ NotifyValueChange(column, row)
       /\ tlast' = Event("NotifyValueChange", Cell(column, row), FALSE, <<>>)
  /\ EditKept
  /\ LayoutKept
  /\ TableFrame

\* NM_CLICK on a cell of the list view.
WinItemClick ==
  /\ backend = "win"
  /\ \E column \in 0..(GetColumnCount - 1), row \in 0..(viewRows - 1),
        inside \in BOOLEAN, b \in BOOLEAN :
       /\ OnItemClick(inside, column, row, b)
       /\ tlast' = [Event("Click", Cell(column, row), FALSE, <<>>)
                      EXCEPT !.inside = inside]
  /\ EditKept
  /\ UNCHANGED <<viewRows, selection>>
  /\ LayoutKept
  /\ TableFrame

\* A click on a cell of the tree view: only a toggle renderer hit on its
\* checkbox emits "toggled".
GtkCellClick ==
  /\ backend = "gtk"
  /\ \E vc \in 0..(GetColumnCount - 1), row \in 0..(viewRows - 1),
        inside \in BOOLEAN, b \in BOOLEAN :
       /\ IF columns_[vc + 1].type = "Checkbox" /\ inside
            THEN OnCellToggled(vc, [valid |-> TRUE, row |-> row], b)
            ELSE calls' = <<>> /\ lresult' = FALSE
       /\ tlast' = [Event("Click", Cell(vc, row), FALSE, <<>>)
                      EXCEPT !.inside = inside]
  /\ EditKept
  /\ UNCHANGED <<viewRows, selection>>
  /\ LayoutKept
  /\ TableFrame

\* The native control draws a cell it holds and asks for its value.
DisplayCell ==
  /\ \E vc \in 0..(GetColumnCount - 1), row \in 0..(viewRows - 1),
        x \in CellValues :
       /\ IF backend = "win"
            THEN OnGetDispInfo(vc, row, x)
            ELSE TreeCellData(vc, row, x)
       /\ tlast' = Event("Display", Cell(vc, row), FALSE, <<>>)
  /\ EditKept
  /\ UNCHANGED <<viewRows, selection>>
  /\ LayoutKept
  /\ TableFrame

RowsNext ==
  \/ RowsAddColumn
  \/ SetModel
  \/ ModelInsertRow
  \/ ModelDeleteRow
  \/ RowInserted
  \/ RowDeleted
  \/ ValueChanged
  \/ WinBeginEdit
  \/ WinCommitEdit
  \/ WinCancelEdit
  \/ GtkStartEdit
  \/ GtkCommitEdit
  \/ GtkCancelEdit
  \/ WinItemClick
  \/ GtkCellClick
  \/ DisplayCell

\* ---- selection, row height and notifications ------------------------------

\* The row heights an application asks for, in DIPs.
RowHeights == {30, 40}

LVIS_SELECTED == 2

\* What the API calls on selection and row height leave alone.
CellsKept ==
  UNCHANGED <<backend, tree_model, wndproc, columns_, model, edit_row_, edit_column_, edit_proc_,
              ctlEdit, widths, scale>>

\* A text column at its own position, 100 DIPs wide.
PlainColumn == [type |-> "Text", column |-> -1, width |-> 100]

AddPlainColumn ==
  /\ GetColumnCount < MaxCols
  /\ IF backend = "win"
       THEN WinAddColumnWithOptions(PlainColumn, TextCells)
       ELSE GtkAddColumnWithOptions(PlainColumn)
  /\ tlast' = NoEvent
  /\ UNCHANGED <<backend, tree_model, wndproc, ctlEdit, viewRows, multi, selection, rowHeight, scale>>
  /\ TableFrame

DoSelectRows ==
  /\ \E rows \in SUBSET (0..MaxRows) :
       /\ SelectRows(rows)
       /\ tlast' = ApiCall("SelectRows", rows)
  /\ CellsKept
  /\ TableFrame

DoSelectRow ==
  /\ \E row \in -1..MaxRows :
       /\ SelectRow(row)
       /\ tlast' = ApiCall("SelectRow", row)
  /\ CellsKept
  /\ TableFrame

DoEnableMultipleSelection ==
  /\ \E enable \in BOOLEAN :
       /\ EnableMultipleSelection(enable)
       /\ tlast' = ApiCall("EnableMultipleSelection", enable)
  /\ CellsKept
  /\ TableFrame

DoSetRowHeight ==
  /\ \E height \in RowHeights :
       /\ SetRowHeight(height)
       /\ tlast' = ApiCall("SetRowHeight", height)
  /\ CellsKept
  /\ TableFrame

\* The list view sends WM_NOTIFY with an item notification.
WinNotify ==
  /\ backend = "win"
  /\ \E code \in {"LVN_ITEMACTIVATE", "LVN_ITEMCHANGED", "LVN_COLUMNCLICK"},
        item \in -1..(viewRows - 1), changed \in {0, LVIF_STATE},
        old \in {0, LVIS_SELECTED}, new \in {0, LVIS_SELECTED} :
       /\ OnNotify(Notification(code, item, changed, old, new))
       /\ tlast' = ApiCall("OnNotify", Notification(code, item, changed, old, new))
  /\ UNCHANGED <<viewRows, selection, multi, rowHeight>>
  /\ CellsKept
  /\ TableFrame

\* ---- column widths of the list view ---------------------------------------

MaxWidthCols == 3  \* columns of a table whose widths are followed

WidthColumnOptions == [type : {"Text"}, column : {-1}, width : Widths]

\* What the model returns for the first row, by column.
WidthCells ==
  [0..(MaxWidthCols - 1) -> {VBool(TRUE), VString(<<98>>), VString(<<98, 98>>)}]

WidthKept ==
  UNCHANGED <<backend, tree_model, wndproc, edit_row_, edit_column_, edit_proc_, ctlEdit, multi,
              rowHeight, scale>>

WidthAddColumn ==
  /\ backend = "win"
  /\ GetColumnCount < MaxWidthCols
  /\ \E options \in WidthColumnOptions, cells \in WidthCells :
       /\ WinAddColumnWithOptions(options, cells)
       /\ tlast' = ApiCall("UpdateColumnsWidth", 0)
  /\ UNCHANGED <<viewRows, selection>>
  /\ WidthKept
  /\ TableFrame

WidthSetModel ==
  /\ backend = "win"
  /\ \E m \in {NoModel, 0, 1}, cells \in WidthCells :
       /\ m # model
       /\ PlatformSetModel(m, cells)
       /\ tlast' = ApiCall(IF m = NoModel THEN "SetModel" ELSE "UpdateColumnsWidth", 0)
  /\ WidthKept
  /\ TableFrame

\* WM_WINDOWPOSCHANGED.
WindowPosChanged ==
  /\ backend = "win"
  /\ \E attached \in BOOLEAN :
       /\ OnWindowPosChanged(attached)
       /\ tlast' = ApiCall("OnWindowPosChanged", attached)
  /\ UNCHANGED <<columns_, model, viewRows, selection>>
  /\ WidthKept
  /\ TableFrame

WidthNext ==
  \/ WidthAddColumn
  \/ WidthSetModel
  \/ WindowPosChanged

\* A list view at 100% or 150% scale.
WidthInit ==
  /\ backend = "win"
  /\ columns_ = <<>>
  /\ model = NoModel
  /\ edit_row_ = -1
  /\ edit_column_ = -1
  /\ edit_proc_ = "null"
  /\ ctlEdit = NoCell
  /\ calls = <<>>
  /\ lresult = FALSE
  /\ tlast = NoEvent
  /\ viewRows = 0
  /\ multi = FALSE
  /\ selection = {}
  /\ widths = <<>>
  /\ rowHeight = DefaultRowHeight
  /\ scale \in {2, 3}
  /\ tree_model = FALSE
  /\ wndproc = "DefEditProc"

SelectNext ==
  \/ AddPlainColumn
  \/ SetModel
  \/ DoSelectRows
  \/ DoSelectRow
  \/ DoEnableMultipleSelection
  \/ DoSetRowHeight
  \/ WinNotify

TableNext ==
  \/ WinAddColumn
  \/ GtkAddColumn
  \/ SetModel
  \/ WinBeginEdit
  \/ WinCommitEdit
  \/ WinCancelEdit
  \/ GtkStartEdit
  \/ GtkCommitEdit
  \/ GtkCancelEdit

TableInit ==
  /\ backend \in {"win", "gtk"}
  /\ columns_ = <<>>
  /\ model = NoModel
  /\ edit_row_ = -1
  /\ edit_column_ = -1
  /\ edit_proc_ = "null"
  /\ ctlEdit = NoCell
  /\ calls = <<>>
  /\ lresult = FALSE
  /\ tlast = NoEvent
  /\ viewRows = 0
  /\ multi = FALSE
  /\ selection = {}
  /\ widths = <<>>
  /\ rowHeight = DefaultRowHeight
  /\ scale = 2
  /\ tree_model = FALSE
  /\ wndproc = "DefEditProc"

\* The same three calls made while the table has no model.
RowInsertedNoModel ==
  /\ model = NoModel
  /\ viewRows < MaxRows
  /\ \E row \in 0..(MaxRows - 1) :
       /\ NotifyRowInsertion(row)
       /\ tlast' = Event("NotifyRowInsertion", Cell(-1, row), FALSE, <<>>)
  /\ EditKept
  /\ LayoutKept
  /\ TableFrame

RowDeletedNoModel ==
  /\ model = NoModel
  /\ \E row \in 0..(MaxRows - 1) :
       /\ backend = "gtk" /\ tree_model => row < viewRows
       /\ NotifyRowDeletion(row)
       /\ tlast' = Event("NotifyRowDeletion", Cell(-1, row), FALSE, <<>>)
  /\ EditKept
  /\ LayoutKept
  /\ TableFrame

ValueChangedNoModel ==
  /\ model = NoModel
  /\ \E column \in 0..(MaxCols - 1), row \in 0..(MaxRows - 1) :
       /\ NotifyValueChange(column, row)
       /\ tlast' = Event("NotifyValueChange", Cell(column, row), FALSE, <<>>)
  /\ EditKept
  /\ LayoutKept
  /\ TableFrame

NotifyNext ==
  \/ AddPlainColumn
  \/ SetModel
  \/ ModelInsertRow
  \/ ModelDeleteRow
  \/ RowInserted
  \/ RowDeleted
  \/ ValueChanged
  \/ RowInsertedNoModel
  \/ RowDeletedNoModel
  \/ ValueChangedNoModel

\* ---- events for no cell ---------------------------------------------------

\* NM_CLICK on an area of the list view that holds no cell: iItem or iSubItem
\* is -1.
WinEmptyClick ==
  /\ backend = "win"
  /\ \E column \in -1..(GetColumnCount - 1), row \in -1..(viewRows - 1),
        inside \in BOOLEAN, b \in BOOLEAN :
       /\ column = -1 \/ row = -1
       /\ OnItemClick(inside, column, row, b)
       /\ tlast' = [Event("EmptyClick", Cell(column, row), FALSE, <<>>)
                      EXCEPT !.inside = inside]
  /\ EditKept
  /\ UNCHANGED <<viewRows, selection>>
  /\ LayoutKept
  /\ TableFrame

\* The "edited" signal of the cell being edited, with a path that does not
\* parse.
GtkEditedBadPath ==
  /\ backend = "gtk"
  /\ ctlEdit # NoCell
  /\ \E t \in Texts :
       /\ OnCellEdited(ctlEdit.col, [valid |-> FALSE, row |-> ctlEdit.row], t.utf8)
       /\ tlast' = Event("BadPath", Cell(ctlEdit.col, -1), TRUE, t.utf8)
  /\ ctlEdit' = NoCell
  /\ UNCHANGED <<backend, tree_model, wndproc, columns_, model, viewRows, selection>>
  /\ LayoutKept
  /\ TableFrame

\* The "toggled" signal of a toggle renderer, with a path that does not parse.
GtkToggledBadPath ==
  /\ backend = "gtk"
  /\ model # NoModel
  /\ \E vc \in 0..(GetColumnCount - 1), row \in 0..(viewRows - 1), b \in BOOLEAN :
       /\ columns_[vc + 1].type = "Checkbox"
       /\ OnCellToggled(vc, [valid |-> FALSE, row |-> row], b)
       /\ tlast' = Event("BadPath", Cell(vc, -1), FALSE, <<>>)
  /\ EditKept
  /\ UNCHANGED <<viewRows, selection>>
  /\ LayoutKept
  /\ TableFrame

BoundsNext ==
  \/ RowsAddColumn
  \/ SetModel
  \/ GtkStartEdit
  \/ WinEmptyClick
  \/ GtkEditedBadPath
  \/ GtkToggledBadPath

\* ---- properties of the table view ----------------------------------------

SetCalls == SelectSeq(calls, LAMBDA c : c.op = "set")

BeganOnNonEditColumn ==
  /\ tlast.op = "BeginEdit"
  /\ tlast.cell.col \in 0..(GetColumnCount - 1)
  /\ columns_[tlast.cell.col + 1].type # "Edit"

Idle == ctlEdit = NoCell /\ edit_row_ = -1 /\ edit_column_ = -1

OneSetOnEditedCell ==
  SetCalls = <<SetValueCall(DisplayColumn(tlast.cell.col), tlast.cell.row,
                            VString(tlast.text))>>

\* C10: a begin-edit on a column that is not an Edit column is refused and
\* the view stays idle with no edit row or column recorded; an edit that ends
\* cancelled makes no set call; an accepted edit that ends with committed
\* text makes exactly one set call, with the new text, on the cell that was
\* edited, when a model is attached at that moment, and makes no call at all
\* when the model was taken away during the edit.
C10_EditLifecycle ==
  /\ BeganOnNonEditColumn => Idle
  /\ (tlast.op = "EndEdit" /\ ~tlast.commit) => SetCalls = <<>>
  /\ (tlast.op = "EndEdit" /\ tlast.commit /\ tlast.hadModel) => OneSetOnEditedCell
  /\ (tlast.op = "EndEdit" /\ tlast.commit /\ ~tlast.hadModel) => calls = <<>>

\* A committed edit of a sub-item column of the list view, with a model.
C10_Witness ==
  /\ backend = "win"
  /\ tlast.op = "EndEdit" /\ tlast.commit /\ tlast.hadModel
  /\ tlast.cell.col > 0
  /\ OneSetOnEditedCell

\* C10 as the specification words it: every committed edit makes exactly one
\* set call.
C10_AsWritten ==
  /\ BeganOnNonEditColumn => Idle
  /\ (tlast.op = "EndEdit" /\ ~tlast.commit) => SetCalls = <<>>
  /\ (tlast.op = "EndEdit" /\ tlast.commit) => OneSetOnEditedCell

\* The cell a begin-edit is for lies outside the model's current bounds.
OutOfBounds(cell) ==
  \/ cell.col < 0 \/ cell.col >= GetColumnCount
  \/ cell.row < 0 \/ cell.row >= GetRowCount(model)

\* C11: a begin-edit whose row or column is outside the model's current
\* bounds is refused: the view is idle afterwards, no edit row or column is
\* recorded, and the model has been neither read nor written.
C11_OutOfBoundsEditRejected ==
  (tlast.op = "BeginEdit" /\ OutOfBounds(tlast.cell)) =>
     Idle /\ calls = <<>>

ToggleCalls == SelectSeq(calls, LAMBDA c : c.op = "on_toggle_checkbox")

ClickedCheckbox ==
  /\ tlast.op = "Click"
  /\ tlast.inside
  /\ columns_[tlast.cell.col + 1].type = "Checkbox"

\* C12: a click inside the checkbox of a Checkbox column reads the cell's
\* boolean, writes its negation to the same cell with exactly one set, and
\* then notifies the toggle observer exactly once, after the write; a click
\* outside the checkbox or on a column of another type makes no set and no
\* notification.
C12_CheckboxToggle ==
  tlast.op = "Click" =>
    IF ClickedCheckbox
      THEN /\ Len(calls) = 3
           /\ calls[1].op = "get"
           /\ calls[1].col = DisplayColumn(tlast.cell.col)
           /\ calls[1].row = tlast.cell.row
           /\ calls[1].val.t = "BOOLEAN"
           /\ calls[2] = SetValueCall(calls[1].col, calls[1].row,
                                      VBool(~calls[1].val.b))
           /\ calls[3].op = "on_toggle_checkbox"
           /\ calls[3].row = tlast.cell.row
      ELSE SetCalls = <<>> /\ ToggleCalls = <<>>

\* C12 witness: a click inside the checkbox of the second column of the list
\* view, on a cell that holds TRUE.
C12_Witness ==
  /\ backend = "win"
  /\ ClickedCheckbox
  /\ tlast.cell.col = 1
  /\ Len(calls) = 3
  /\ calls[2].op = "set" /\ calls[2].val = VBool(FALSE)

\* The application has made exactly one change the view has not been told of.
OnePending(op, d) ==
  tlast.op = op /\ tlast.rows + d = GetRowCount(model)

\* C16: a row notification that follows the insertion or deletion of a row
\* leaves the view with the model's row count and asks for one refresh that
\* neither repaints the whole control nor scrolls; NotifyValueChange asks for
\* a refresh of its row only; the model's own change leaves the view's row
\* count as it was.
C16_NotifyRefreshesRegion ==
  /\ (OnePending("NotifyRowInsertion", 1) \/ OnePending("NotifyRowDeletion", -1)) =>
       /\ viewRows = GetRowCount(model)
       /\ calls = IF backend = "win"
                    THEN <<SetItemCountEx(GetRowCount(model),
                             {"LVSICF_NOINVALIDATEALL", "LVSICF_NOSCROLL"})>>
                    ELSE <<RowRefresh(IF tlast.op = "NotifyRowInsertion"
                                        THEN "row_inserted" ELSE "row_deleted",
                                      tlast.cell.row)>>
  /\ tlast.op = "NotifyValueChange" =>
       /\ viewRows = tlast.rows
       /\ Len(calls) = 1
       /\ calls[1].op \in {"ListView_Update", "row_changed"}
       /\ calls[1].row = tlast.cell.row
  /\ tlast.op = "ModelChange" => viewRows = tlast.rows

\* C16 witness: the list view, holding one row, is told of the second row the
\* application has inserted.
C16_Witness ==
  /\ backend = "win"
  /\ OnePending("NotifyRowInsertion", 1)
  /\ viewRows = 2

\* C17: whatever handler reads or writes the model for a view column, on
\* either backend, uses the model column the column was added with:
\* options.column, or the column's position when options.column was -1.
C17_SameModelColumn ==
  (/\ tlast.op \in {"Display", "Click", "BeginEdit", "EndEdit"}
   /\ tlast.cell.col \in 0..(GetColumnCount - 1)) =>
     \A k \in 1..Len(calls) :
       calls[k].op \in {"get", "set"} =>
         calls[k].col = columns_[tlast.cell.col + 1].column

\* C13: while the view is in single selection mode at most one row is
\* selected, whatever SelectRow, SelectRows, EnableMultipleSelection and
\* SetModel calls came before.
C13_SingleSelection ==
  (backend # "off" /\ ~multi) => Cardinality(selection) <= 1

LogCalls == SelectSeq(calls, LAMBDA c : c.op = "LOG(ERROR)")

\* The text of the first-row cell of column i, when UpdateColumnsWidth read
\* it and it is a string.
Measured(i) ==
  {calls[k].val.s : k \in {j \in 1..Len(calls) :
                             /\ calls[j].op = "get" /\ calls[j].col = i
                             /\ calls[j].row = 0 /\ calls[j].val.t = "STRING"}}

\* C14: after UpdateColumnsWidth a column with an explicit width w has
\* w * scale pixels; an automatic column that is not the last has the
\* default width * scale, or, when the model has a row whose value in that
\* column is a string, the larger of that and the text's width plus a
\* padding of 7 * scale (column 0) or 14 * scale; no column but the last
\* ever has the stretch width, and the last one only when its width is
\* automatic.
C14_ColumnWidthPolicy ==
  /\ tlast.op = "UpdateColumnsWidth" =>
       \A i \in 0..(GetColumnCount - 1) :
         IF columns_[i + 1].width >= 0
           THEN widths[i + 1] = Scaled(columns_[i + 1].width)
         ELSE IF i = GetColumnCount - 1
           THEN widths[i + 1] = LVSCW_AUTOSIZE_USEHEADER
         ELSE /\ widths[i + 1] >= Scaled(kDefaultColumnWidth)
              /\ IF GetRowCount(model) > 0 /\ Measured(i) # {}
                   THEN \E text \in Measured(i) :
                          widths[i + 1] =
                            Max(Scaled(kDefaultColumnWidth),
                                GetStringWidth(text)
                                  + Scaled(IF i = 0 THEN 7 ELSE 14))
                   ELSE widths[i + 1] = Scaled(kDefaultColumnWidth)
  /\ backend = "win" =>
       \A k \in 1..Len(widths) :
         widths[k] = LVSCW_AUTOSIZE_USEHEADER =>
           k = GetColumnCount /\ columns_[k].width < 0

\* C14 witness: at 150% the second of three columns, automatic, is as wide
\* as the text of its first-row cell plus the padding of 14 * 1.5.
C14_Witness ==
  /\ tlast.op = "UpdateColumnsWidth"
  /\ scale = 3
  /\ GetColumnCount = 3
  /\ columns_[2].width = -1
  /\ Measured(1) = {<<98, 98>>}
  /\ widths[2] = GetStringWidth(<<98, 98>>) + 21
  /\ widths[2] > Scaled(kDefaultColumnWidth)

\* C15: SetRowHeight on a table that has a column logs an error and leaves
\* GetRowHeight as it was; on a table without columns it takes effect.
C15_RowHeightOnlyBeforeColumns ==
  tlast.op = "SetRowHeight" =>
    IF GetColumnCount > 0
      THEN rowHeight = tlast.height /\ Len(LogCalls) = 1
      ELSE rowHeight \in {tlast.arg, CeilScaled(tlast.arg)} /\ LogCalls = <<>>

RowActivates == SelectSeq(calls, LAMBDA c : c.op = "on_row_activate")
SelectionChanges == SelectSeq(calls, LAMBDA c : c.op = "on_selection_change")

\* C20: OnNotify emits on_row_activate, once and with the activated row, for
\* an item-activate notification and for no other; it emits
\* on_selection_change only for an item-changed notification that carries
\* the state flag and differing states, and never for an item-activate;
\* other notifications emit nothing.
C20_NotifyOwnEventOnly ==
  tlast.op = "OnNotify" =>
    /\ RowActivates = IF tlast.arg.code = "LVN_ITEMACTIVATE"
                        THEN <<Emit("on_row_activate", -1, tlast.arg.iItem)>>
                        ELSE <<>>
    /\ SelectionChanges # <<>> =>
         /\ tlast.arg.code = "LVN_ITEMCHANGED"
         /\ HasStateFlag(tlast.arg)
         /\ tlast.arg.uOldState # tlast.arg.uNewState
    /\ Len(SelectionChanges) <= 1
    /\ Len(calls) = Len(RowActivates) + Len(SelectionChanges)

\* ======================================================================
\* Part 4: the scroll bar button (nativeui/win/scroll_bar/scroll_bar_button.cc)
\* ======================================================================

\* The largest line of the scroll bar.
MaxPosition == 3

Types == {"Up", "Down", "Left", "Right"}
Messages == {"WM_LBUTTONDOWN", "WM_LBUTTONUP", "WM_RBUTTONDOWN", "WM_RBUTTONUP"}

NoMouse == [op |-> "none", message |-> "none", was |-> "Normal", ran |-> FALSE]

\* ScrollBarView::LineUp and LineDown: one line, kept inside the range.
LineUp(p)   == IF p > 0 THEN p - 1 ELSE p
LineDown(p) == IF p < MaxPosition THEN p + 1 ELSE p

\* ScrollBarButton::OnClick: the step the button performs, by its type.
OnClick == IF type_ \in {"Up", "Left"} THEN "LineUp" ELSE "LineDown"

\* The position after the steps a handler performed.
RECURSIVE Scrolled(_, _)
Scrolled(p, s) ==
  IF s = <<>> THEN p
  ELSE Scrolled(IF Head(s) = "LineUp" THEN LineUp(p) ELSE LineDown(p), Tail(s))

Mouse(o, m) == [op |-> o, message |-> m, was |-> state_, ran |-> repeater_]

ButtonFrame == UNCHANGED <<wrapVars, valueVars, tableVars>>

\* ScrollBarButton::OnMouseEnter.
OnMouseEnter ==
  /\ state_' = "Hovered"
  /\ steps' = <<>>
  /\ UNCHANGED <<repeater_, position>>

\* ScrollBarButton::OnMouseLeave.
OnMouseLeave ==
  /\ state_' = "Normal"
  /\ repeater_' = FALSE
  /\ steps' = <<>>
  /\ UNCHANGED position

\* ScrollBarButton::OnMouseClick.
OnMouseClick(message) ==
  IF message = "WM_LBUTTONDOWN"
  THEN /\ state_' = "Pressed"
       /\ steps' = <<OnClick>>
       /\ position' = Scrolled(position, <<OnClick>>)
       /\ repeater_' = TRUE
  ELSE /\ state_' = "Hovered"
       /\ repeater_' = FALSE
       /\ steps' = <<>>
       /\ UNCHANGED position

\* The timer of repeater_ fires: it runs the callback it was built with.
RepeaterFired ==
  /\ steps' = <<OnClick>>
  /\ position' = Scrolled(position, <<OnClick>>)
  /\ UNCHANGED <<state_, repeater_>>

MouseEnter ==
  /\ type_ # "off"
  /\ blast' = Mouse("enter", "none")
  /\ OnMouseEnter
  /\ UNCHANGED type_ /\ ButtonFrame

MouseLeave ==
  /\ type_ # "off"
  /\ blast' = Mouse("leave", "none")
  /\ OnMouseLeave
  /\ UNCHANGED type_ /\ ButtonFrame

MouseClick ==
  /\ type_ # "off"
  /\ \E message \in Messages :
       /\ blast' = Mouse("click", message)
       /\ OnMouseClick(message)
  /\ UNCHANGED type_ /\ ButtonFrame

TimerTick ==
  /\ type_ # "off"
  /\ repeater_
  /\ blast' = Mouse("timer", "none")
  /\ RepeaterFired
  /\ UNCHANGED type_ /\ ButtonFrame

ButtonNext == MouseEnter \/ MouseLeave \/ MouseClick \/ TimerTick

\* After the constructor: any type, Normal, the repeater built but not started.
ButtonInit ==
  /\ type_ \in Types
  /\ state_ = "Normal" /\ repeater_ = FALSE
  /\ position \in 0..MaxPosition
  /\ steps = <<>> /\ blast = NoMouse


C22_EventsForNoCellIgnored ==
  tlast.op \in {"EmptyClick", "BadPath"} => calls = <<>>

\* C23: NotifyRowInsertion, NotifyRowDeletion and NotifyValueChange called
\* while the table has no model are no-ops on both backends: nothing is called
\* through the missing model and the rows the view holds are unchanged.
C23_NotifyWithoutModelIsNoOp ==
  (/\ tlast.op \in {"NotifyRowInsertion", "NotifyRowDeletion", "NotifyValueChange"}
   /\ ~tlast.hadModel)
    => /\ \A i \in 1..Len(calls) : calls[i] # NullCall
       /\ viewRows = tlast.rows

\* C24: the auto-repeat timer runs only while the button is Pressed, and each
\* handler did what it is said to do: a left-button-down set Pressed, performed
\* one scroll step (LineUp for Up and Left, LineDown otherwise) and started
\* the repeater; any other click set Hovered and stopped it; mouse-leave set
\* Normal and stopped it; mouse-enter set Hovered.
C24_RepeaterOnlyWhilePressed ==
  /\ repeater_ => state_ = "Pressed"
  /\ blast.op = "click" /\ blast.message = "WM_LBUTTONDOWN" =>
       /\ state_ = "Pressed" /\ repeater_
       /\ steps = <<IF type_ \in {"Up", "Left"} THEN "LineUp" ELSE "LineDown">>
  /\ blast.op = "click" /\ blast.message # "WM_LBUTTONDOWN" =>
       state_ = "Hovered" /\ ~repeater_ /\ steps = <<>>
  /\ blast.op = "leave" => state_ = "Normal" /\ ~repeater_ /\ steps = <<>>
  /\ blast.op = "enter" => state_ = "Hovered" /\ steps = <<>>

\* ======================================================================
\* The specifications
\* ======================================================================

\* The value bridge and the table view at rest.
ValueOff ==
  /\ vphase = "off" /\ val = 0 /\ slot = 0 /\ vout = 0 /\ vres = 0

TableOff ==
  /\ backend = "off" /\ columns_ = <<>> /\ model = NoModel
  /\ edit_row_ = -1 /\ edit_column_ = -1 /\ edit_proc_ = "null"
  /\ ctlEdit = NoCell /\ calls = <<>>
  /\ lresult = FALSE /\ tlast = NoEvent
  /\ viewRows = 0 /\ multi = FALSE /\ selection = {} /\ widths = <<>>
  /\ rowHeight = DefaultRowHeight /\ scale = 2 /\ tree_model = FALSE
  /\ wndproc = "DefEditProc"

ButtonOff ==
  /\ type_ = "off" /\ state_ = "Normal" /\ repeater_ = FALSE
  /\ position = 0 /\ steps = <<>> /\ blast = NoMouse

WrapOff ==
  /\ objs = [p \in Addrs |-> FreeSlot]
  /\ handles = [h \in HandleIds |-> FreeHandle]
  /\ wrapperTable = [p \in Addrs |-> NoHandle]
  /\ stack = <<>> /\ last = NoCall /\ ub = FALSE

InitWrap  == WrapInit /\ ValueOff /\ TableOff /\ ButtonOff
SpecWrap  == InitWrap /\ [][WrapNext]_vars

InitValue == ValueInit /\ WrapOff /\ TableOff /\ ButtonOff
SpecValue == InitValue /\ [][ValueNext]_vars

InitTable == TableInit /\ WrapOff /\ ValueOff /\ ButtonOff
SpecTable == InitTable /\ [][TableNext]_vars

InitSelect == TableInit /\ WrapOff /\ ValueOff /\ ButtonOff
SpecSelect == InitSelect /\ [][SelectNext]_vars

InitRows  == TableInit /\ WrapOff /\ ValueOff /\ ButtonOff

InitWidth == WidthInit /\ WrapOff /\ ValueOff /\ ButtonOff
SpecWidth == InitWidth /\ [][WidthNext]_vars
SpecRows  == InitRows /\ [][RowsNext]_vars

InitBounds == TableInit /\ WrapOff /\ ValueOff /\ ButtonOff
SpecBounds == InitBounds /\ [][BoundsNext]_vars

InitNotify == TableInit /\ WrapOff /\ ValueOff /\ ButtonOff
SpecNotify == InitNotify /\ [][NotifyNext]_vars

InitButton == ButtonInit /\ WrapOff /\ ValueOff /\ TableOff
SpecButton == InitButton /\ [][ButtonNext]_vars

====
